---- MODULE Spec2Model ----
(***************************************************************************)
(* TrainingTimer (timer_v0.2.2.py): the countdown session state machine of *)
(* TerminalTimer, its keyboard poll, threshold notifications, terminal     *)
(* mode handling, session log entry and the background reminder threads.   *)
(*                                                                         *)
(* The main thread is modelled statement by statement through `pc`.  A     *)
(* SIGINT (Ctrl+C) raises KeyboardInterrupt in the main thread between any *)
(* two statements; where control goes is decided by the try blocks that    *)
(* enclose the statement, exactly as in the source.  Each reminder thread  *)
(* started by start_reminder_thread has its own position in `threads`.     *)
(* Time is not measured: a sleeping thread may wake at any later moment.   *)
(* termios.tcsetattr (restore) is taken to succeed; tcgetattr/setcbreak    *)
(* (acquire) may fail.  The platform is POSIX (sys.platform != 'win32').   *)
(* pygame.mixer.music is one player shared by every thread: load replaces  *)
(* the clip, play (re)starts the loaded clip, and a wait for get_busy() to *)
(* turn false ends at some later moment.  threading.Lock objects are held  *)
(* from the entry of a `with` block to its exit.                           *)
(***************************************************************************)
EXTENDS Integers, Sequences, FiniteSets, TLC

\* ---------------------------------------------------------------- bounds
\* Sessions the user starts in one run of the program.
MaxSessions == 2
\* The paused-cycle counter saturates here.
MaxPausedPolls == 2

\* Durations the user enters at the prompt of Spec (choice 5, in seconds).
Durations == {1, 11, 20}
\* Durations of the session of SpecSession: choices 1 (30 minutes) and
\* 2 (20 minutes), and some entered by hand (half of 21 is 10, a fixed
\* threshold; half of 2 and of 25 is none; 60 starts at a threshold).
SessionDurations == {1, 2, 21, 25, 60, 20 * 60, 30 * 60}

\* ------------------------------------------------------------ audio clips
\* voice/*.mp3, named by notification id.
AllClips ==
  {"half", "15min", "10min", "5min", "3min", "1min", "30sec", "10sec",
   "beep", "end", "reminder"}
\* Which clip files exist on disk (os.path.exists).
VoiceSets == {AllClips, AllClips \ {"half", "10sec"}}

\* ------------------------------------------------- notification scheduler
notification_times == {15 * 60, 10 * 60, 5 * 60, 3 * 60, 1 * 60, 30, 10}

NoPlay == [id |-> "none", plays |-> 0]

\* A bug to test the claims against: no time counts as overlapping.
is_overlapping_Never(remaining_seconds) == FALSE

is_overlapping_with_other_notifications(remaining_seconds) ==
  remaining_seconds \in notification_times

\* A bug to test the claims against: the 15-minute branch without its
\* test of the total.
fixed_notification_No30MinTest(remaining_seconds, total_seconds, files) ==
  IF remaining_seconds = 15 * 60 /\ "15min" \in files
    THEN [id |-> "15min", plays |-> 1]
  ELSE IF remaining_seconds = 10 * 60 /\ "10min" \in files
    THEN [id |-> "10min", plays |-> 1]
  ELSE IF remaining_seconds = 5 * 60 /\ "5min" \in files
    THEN [id |-> "5min", plays |-> 1]
  ELSE IF remaining_seconds = 3 * 60 /\ "3min" \in files
    THEN [id |-> "3min", plays |-> 2]
  ELSE IF remaining_seconds = 1 * 60 /\ "1min" \in files
    THEN [id |-> "1min", plays |-> 2]
  ELSE IF remaining_seconds = 30 /\ "30sec" \in files
    THEN [id |-> "30sec", plays |-> 1]
  ELSE IF remaining_seconds = 10 /\ "10sec" \in files
    THEN [id |-> "10sec", plays |-> 1]
  ELSE NoPlay

\* play_time_notification lines 227-282: the fixed thresholds in source
\* order; each branch plays and returns only if its clip file exists.
fixed_notification(remaining_seconds, total_seconds, files) ==
  IF remaining_seconds = 15 * 60 /\ total_seconds >= 30 * 60 /\ "15min" \in files
    THEN [id |-> "15min", plays |-> 1]
  ELSE IF remaining_seconds = 10 * 60 /\ "10min" \in files
    THEN [id |-> "10min", plays |-> 1]
  ELSE IF remaining_seconds = 5 * 60 /\ "5min" \in files
    THEN [id |-> "5min", plays |-> 1]
  ELSE IF remaining_seconds = 3 * 60 /\ "3min" \in files
    THEN [id |-> "3min", plays |-> 2]
  ELSE IF remaining_seconds = 1 * 60 /\ "1min" \in files
    THEN [id |-> "1min", plays |-> 2]
  ELSE IF remaining_seconds = 30 /\ "30sec" \in files
    THEN [id |-> "30sec", plays |-> 1]
  ELSE IF remaining_seconds = 10 /\ "10sec" \in files
    THEN [id |-> "10sec", plays |-> 1]
  ELSE NoPlay

\* A bug to test the claims against: the half-time branch without its
\* overlap test.
play_time_notification_NoOverlapTest(remaining_seconds, total_seconds, files) ==
  IF remaining_seconds = total_seconds \div 2 /\ "half" \in files
    THEN [id |-> "half", plays |-> 1]
    ELSE fixed_notification(remaining_seconds, total_seconds, files)

\* The clip play_time_notification starts for (remaining, total) and how many
\* times it plays it, given the clip files that exist; NoPlay when it falls
\* through every branch.  Lines 216-225 come first: the half-time clip.
play_time_notification(remaining_seconds, total_seconds, files) ==
  LET half_time == total_seconds \div 2 IN
  IF /\ remaining_seconds = half_time
     /\ ~is_overlapping_with_other_notifications(remaining_seconds)
     /\ "half" \in files
    THEN [id |-> "half", plays |-> 1]
    ELSE fixed_notification(remaining_seconds, total_seconds, files)

\* --------------------------------------------------------------- keyboard
\* What select/read deliver in one poll: nothing, or one character.
Keys == {"none", "p", "P", "x"}
\* A bug to test the claims against: the character is not lowered.
Lower_AsTyped(ch) == ch

\* ch.lower() on the characters above.
Lower(ch) == IF ch = "P" THEN "p" ELSE ch
\* What sys.stdin is: a terminal, or an object whose fileno() raises
\* io.UnsupportedOperation (an OSError and a ValueError).
StdinKinds == {"tty", "nofileno"}
\* Exceptions select.select and sys.stdin.read raise.
PollErrors == {"OSError", "ValueError"}
\* What one call of _check_keyboard_input meets.
PollOutcomes(kind) == IF kind = "tty" THEN Keys \cup PollErrors ELSE PollErrors

\* A bug to test the claims against: only ValueError is caught.
check_keyboard_input_OSErrorEscapes(met) ==
  IF met \in {"ValueError", "KeyboardInterrupt"} THEN "none"
  ELSE IF met = "OSError" THEN "raise"
  ELSE Lower(met)

\* _check_keyboard_input, lines 399-406: the value returned ("none" for
\* None), or "raise" for an exception the except clause does not catch.
check_keyboard_input(met) ==
  IF met \in {"OSError", "ValueError", "KeyboardInterrupt"} THEN "none"
  ELSE Lower(met)

\* ------------------------------------------------------------------ locks
\* Who holds a threading.Lock: nobody, the main thread, or the reminder
\* thread started by session i.
Free == <<"free", 0>>
MainThread == <<"main", 0>>
ReminderCtx(i) == <<"reminder", i>>

\* ------------------------------------------------------------------ state
VARIABLES
  pc,               \* main thread: the statement about to execute
  session,          \* sessions started so far (the last log number)
  total,            \* total_seconds
  remaining,        \* remaining_seconds
  is_running,       \* self.is_running
  is_paused,        \* self.is_paused
  paused_local,     \* countdown's local is_paused (line 442)
  old_settings,     \* self.old_settings is not None
  raw,              \* the terminal is in cbreak mode
  pending,          \* exception propagating out of countdown
  reminder_active,  \* self.reminder_active
  reminder_thread,  \* self.reminder_thread (0: None), by spawning session
  threads,          \* position of each reminder thread
  log_entry,        \* the log record of the current log number
  voice,            \* clip files that exist
  stdin,            \* what sys.stdin is
  pause_lock,       \* holder of self.pause_lock
  reminder_lock,    \* holder of self.reminder_lock
  loaded,           \* the clip pygame.mixer.music has loaded
  polled,           \* what the poll of this cycle met ("none": nothing)
  shown,            \* remaining time printed by the stop screen (-1: none)
  outcome,          \* "none", "Completed", "Stopped"
  \* history of the current countdown call
  acquires,         \* successful tty.setcbreak calls
  releases,         \* termios.tcsetattr restore calls
  ticks,            \* time.sleep(1) calls
  zeroHits,         \* decrements that brought remaining to 0
  fired,            \* notifications started: [id, at, plays], plays
                    \* counting the play() calls on a clip of TwiceClips
                    \* (up to 3)
  lastChecked,      \* remaining at the last play_time_notification call
  pausedAt,         \* remaining when the session was last paused (0: none)
  resumedAt,        \* remaining when it was resumed (0: none)
  pausedPolls,      \* cycles spent paused since then (saturating)
  wasPaused,        \* the session has been paused at least once
  cancelAt,         \* remaining when the handler of line 502 was entered
                    \* (-1: it was not)
  paused_before     \* self.is_paused as line 420 found it, left by the
                    \* previous call of countdown

vars ==
  <<pc, session, total, remaining, is_running, is_paused, paused_local,
    old_settings, raw, pending, reminder_active, reminder_thread, threads,
    log_entry, voice, shown, outcome, acquires, releases, ticks, zeroHits,
    fired, lastChecked, pausedAt, resumedAt, pausedPolls, wasPaused,
    cancelAt, stdin, pause_lock, reminder_lock, loaded, polled,
    paused_before>>

mainVars ==
  <<session, total, reminder_thread, log_entry, voice, stdin, paused_before>>
lockVars == <<pause_lock, reminder_lock>>
ioVars == <<loaded, polled>>
termVars == <<old_settings, raw, acquires, releases>>
loopVars == <<remaining, is_running, is_paused, paused_local>>
pauseHist == <<pausedAt, resumedAt, pausedPolls, wasPaused>>
tickHist == <<ticks, zeroHits, fired, lastChecked>>
endVars == <<shown, outcome, pending, cancelAt>>
remVars == <<reminder_active, threads>>

Sessions == 1 .. MaxSessions

\* Statements of countdown inside `try:` (431-500).
LoopPcs ==
  {"c_loop", "c_poll", "c_toggle", "c_toggle_out", "c_redisplay",
   "c_redisplay_out", "c_readpause", "c_readpause_out", "c_display",
   "c_display_out", "c_notify", "c_notify_wait", "c_beep", "c_sleep", "c_dec",
   "c_psleep"}
FinalizePcs ==
  {"c_done", "fin_restore", "fin_clear", "fin_screen", "fin_sound",
   "fin_sound_wait", "fin_log", "fin_reminder", "fin_reminder_out",
   "fin_spawn", "fin_started"}
TryPcs == LoopPcs \cup FinalizePcs
\* Statements of the `except KeyboardInterrupt:` clause (502-529).
HandlerPcs == {"h_flag", "h_restore", "h_clear", "h_screen", "h_log"}
\* Statements of the `finally:` clause (531-538).
FinallyPcs == {"f_restore", "f_clear"}
\* Statements of countdown before `try:` (419-429).
EntryPcs == {"c_init", "c_getattr", "c_setcbreak", "c_try"}
\* Statements of main and get_user_input outside an input() call.
MainPcs == {"stop_reminder", "stop_reminder_out", "join", "log_start", "delay"}
\* input() calls wrapped in `except KeyboardInterrupt: sys.exit(0)`.
InputPcs == {"prompt", "again"}
\* print() calls, which may raise (OSError on a closed or broken stdout).
FaultPcs == {"c_redisplay", "c_display", "fin_screen", "h_screen"}

Alive(i) == threads[i] \notin {"none", "done"}
AliveThreads == {i \in Sessions : Alive(i)}

\* A record of the log file: status, completed, remaining_seconds, and
\* whether completed_datetime and stopped_datetime have been written.
NoLog ==
  [number |-> 0, status |-> "none", completed |-> FALSE, remaining |-> -1,
   completed_datetime |-> FALSE, stopped_datetime |-> FALSE]
\* log_timer_start, lines 131-141: the record it appends.
StartRecord(n) == [NoLog EXCEPT !.number = n, !.status = "start"]

InitCommon ==
  /\ remaining = 0
  /\ is_running = FALSE
  /\ is_paused = FALSE
  /\ paused_local = FALSE
  /\ old_settings = FALSE
  /\ raw = FALSE
  /\ pending = "none"
  /\ reminder_active = FALSE
  /\ reminder_thread = 0
  /\ threads = [i \in Sessions |-> "none"]
  /\ voice \in VoiceSets
  /\ stdin \in StdinKinds
  /\ pause_lock = Free
  /\ reminder_lock = Free
  /\ loaded = "none"
  /\ polled = "none"
  /\ paused_before = FALSE
  /\ shown = -1
  /\ outcome = "none"
  /\ acquires = 0
  /\ releases = 0
  /\ ticks = 0
  /\ zeroHits = 0
  /\ fired = << >>
  /\ lastChecked = 0
  /\ pausedAt = 0
  /\ resumedAt = 0
  /\ pausedPolls = 0
  /\ wasPaused = FALSE
  /\ cancelAt = -1

\* After TerminalTimer.__init__, main about to call get_user_input.
Init ==
  /\ InitCommon
  /\ pc = "stop_reminder"
  /\ session = 0
  /\ total = 0
  /\ log_entry = NoLog

\* The first session with countdown about to enter its try statement (line
\* 431): the duration chosen, the log record written, lines 419-421 done
\* and cbreak mode acquired.
InitSession ==
  /\ pc = "c_try"
  /\ session = 1
  /\ total \in SessionDurations
  /\ remaining = total
  /\ is_running = TRUE
  /\ is_paused = FALSE
  /\ paused_local = FALSE
  /\ old_settings = TRUE
  /\ raw = TRUE
  /\ pending = "none"
  /\ reminder_active = FALSE
  /\ reminder_thread = 0
  /\ threads = [i \in Sessions |-> "none"]
  /\ voice \in VoiceSets
  /\ stdin = "tty"
  /\ pause_lock = Free
  /\ reminder_lock = Free
  /\ loaded = IF "beep" \in voice THEN "beep" ELSE "none"
  /\ polled = "none"
  /\ paused_before = FALSE
  /\ shown = -1
  /\ outcome = "none"
  /\ acquires = 1
  /\ releases = 0
  /\ ticks = 0
  /\ zeroHits = 0
  /\ fired = << >>
  /\ lastChecked = 0
  /\ pausedAt = 0
  /\ resumedAt = 0
  /\ pausedPolls = 0
  /\ wasPaused = FALSE
  /\ cancelAt = -1
  /\ log_entry = StartRecord(1)
\* ------------------------------------------------- main, get_user_input

\* stop_reminder_thread, lines 209-210: the lock is taken and the flag
\* cleared.
StopReminder ==
  /\ pc = "stop_reminder"
  /\ reminder_lock = Free
  /\ reminder_lock' = MainThread
  /\ reminder_active' = FALSE
  /\ pc' = "stop_reminder_out"
  /\ UNCHANGED <<pause_lock, ioVars, mainVars, termVars, loopVars, pauseHist,
                 tickHist, endVars, threads>>

\* stop_reminder_thread, end of the with block of line 209.
StopUnlock ==
  /\ pc = "stop_reminder_out"
  /\ reminder_lock' = Free
  /\ pc' = "join"
  /\ UNCHANGED <<pause_lock, ioVars, mainVars, termVars, loopVars, pauseHist,
                 tickHist, endVars, remVars>>

\* stop_reminder_thread, lines 211-212: join(timeout=1) returns when the
\* thread has ended or after one second, whichever comes first.
Join ==
  /\ pc = "join"
  /\ pc' = "prompt"
  /\ UNCHANGED <<lockVars, ioVars, mainVars, termVars, loopVars, pauseHist, tickHist, endVars,
                 remVars>>

\* get_user_input, lines 545-617: the task and the duration are read.
Prompt ==
  /\ pc = "prompt"
  /\ session < MaxSessions
  /\ \E d \in Durations : total' = d
  /\ pc' = "log_start"
  /\ UNCHANGED <<lockVars, ioVars, session, reminder_thread, log_entry, voice,
                 stdin, paused_before, termVars, loopVars, pauseHist, tickHist,
                 endVars,
                 remVars>>

\* main line 701, log_timer_start: a new record under the next number.
LogStart ==
  /\ pc = "log_start"
  /\ session' = session + 1
  /\ log_entry' = StartRecord(session + 1)
  /\ pc' = "delay"
  /\ UNCHANGED <<lockVars, ioVars, total, reminder_thread, voice, stdin,
                 paused_before,
                 termVars, loopVars,
                 pauseHist, tickHist, endVars, remVars>>

\* main lines 710-713: three beeps (play_beep), one second apart.
Delay ==
  /\ pc = "delay"
  /\ loaded' = IF "beep" \in voice THEN "beep" ELSE loaded
  /\ pc' = "c_init"
  /\ UNCHANGED <<lockVars, polled, mainVars, termVars, loopVars, pauseHist, tickHist, endVars,
                 remVars>>

\* main lines 718-734: Enter at the prompt starts the next round.
Again ==
  /\ pc = "again"
  /\ pc' = "stop_reminder"
  /\ UNCHANGED <<lockVars, ioVars, mainVars, termVars, loopVars, pauseHist, tickHist, endVars,
                 remVars>>

\* -------------------------------------------------- countdown: entry

\* A bug to test the claims against: line 420 is left out, the pause flag
\* of the previous call is kept.
CountdownInit_KeepsPause ==
  /\ pc = "c_init"
  /\ is_running' = TRUE
  /\ is_paused' = is_paused
  /\ remaining' = total
  /\ pc' = "c_getattr"
  /\ acquires' = 0 /\ releases' = 0
  /\ ticks' = 0 /\ zeroHits' = 0 /\ fired' = << >> /\ lastChecked' = 0
  /\ pausedAt' = 0 /\ resumedAt' = 0 /\ pausedPolls' = 0 /\ wasPaused' = FALSE
  /\ shown' = -1 /\ outcome' = "none" /\ cancelAt' = -1
  /\ paused_local' = FALSE /\ polled' = "none"
  /\ paused_before' = is_paused
  /\ UNCHANGED <<lockVars, loaded, session, total, reminder_thread,
                 log_entry, voice, stdin, old_settings, raw, pending,
                 remVars>>

\* countdown lines 419-421; the history of the previous call is dropped.
CountdownInit ==
  /\ pc = "c_init"
  /\ is_running' = TRUE
  /\ is_paused' = FALSE
  /\ remaining' = total
  /\ pc' = "c_getattr"
  /\ acquires' = 0 /\ releases' = 0
  /\ ticks' = 0 /\ zeroHits' = 0 /\ fired' = << >> /\ lastChecked' = 0
  /\ pausedAt' = 0 /\ resumedAt' = 0 /\ pausedPolls' = 0 /\ wasPaused' = FALSE
  /\ shown' = -1 /\ outcome' = "none" /\ cancelAt' = -1
  /\ paused_local' = FALSE /\ polled' = "none"
  /\ paused_before' = is_paused
  /\ UNCHANGED <<lockVars, loaded, session, total, reminder_thread,
                 log_entry, voice, stdin, old_settings, raw, pending,
                 remVars>>

\* countdown line 426: termios.tcgetattr; on termios.error the except
\* clause of line 428 passes and the loop is entered without cbreak mode.
GetAttr ==
  /\ pc = "c_getattr"
  /\ \/ stdin = "tty" /\ old_settings' = TRUE /\ pc' = "c_setcbreak"
     \/ old_settings' = old_settings /\ pc' = "c_loop"
  /\ UNCHANGED <<lockVars, ioVars, mainVars, raw, acquires, releases, loopVars, pauseHist,
                 tickHist, endVars, remVars>>

\* countdown line 427: tty.setcbreak, or its failure (lines 428-429).
SetCbreak ==
  /\ pc = "c_setcbreak"
  /\ \/ raw' = TRUE /\ acquires' = acquires + 1 /\ pc' = "c_try"
     \/ raw' = raw /\ acquires' = acquires /\ pc' = "c_loop"
  /\ UNCHANGED <<lockVars, ioVars, mainVars, old_settings, releases, loopVars, pauseHist,
                 tickHist, endVars, remVars>>

\* countdown line 431: the try statement is entered.
EnterTry ==
  /\ pc = "c_try"
  /\ pc' = "c_loop"
  /\ UNCHANGED <<lockVars, ioVars, mainVars, termVars, loopVars, pauseHist, tickHist, endVars,
                 remVars>>

\* -------------------------------------------------- countdown: the loop

\* A bug to test the claims against: the loop stops one second early.
LoopTest_StopsAtOne ==
  /\ pc = "c_loop"
  /\ pc' = IF remaining > 1 /\ is_running THEN "c_poll" ELSE "c_done"
  /\ UNCHANGED <<lockVars, ioVars, mainVars, termVars, loopVars, pauseHist, tickHist, endVars,
                 remVars>>

\* countdown line 432: the while condition.
LoopTest ==
  /\ pc = "c_loop"
  /\ pc' = IF remaining > 0 /\ is_running THEN "c_poll" ELSE "c_done"
  /\ UNCHANGED <<lockVars, ioVars, mainVars, termVars, loopVars, pauseHist, tickHist, endVars,
                 remVars>>

\* countdown lines 434-435 with _check_keyboard_input (393-406): `p`
\* leads to _toggle_pause; an exception that escaped the poll would leave
\* the loop through the finally clause.
Poll ==
  /\ pc = "c_poll"
  /\ \E met \in PollOutcomes(stdin) :
       LET ch == check_keyboard_input(met) IN
         /\ polled' = met
         /\ pc' = IF ch = "raise" THEN "f_restore"
                  ELSE IF ch = "p" THEN "c_toggle" ELSE "c_readpause"
         /\ pending' = IF ch = "raise" THEN "fault" ELSE pending
  /\ UNCHANGED <<lockVars, loaded, mainVars, termVars, loopVars, pauseHist,
                 tickHist, shown, outcome, cancelAt, remVars>>

\* _toggle_pause, lines 410-415: the lock is taken and the flag flipped.
TogglePause ==
  /\ pc = "c_toggle"
  /\ pause_lock = Free
  /\ pause_lock' = MainThread
  /\ is_paused' = ~is_paused
  /\ IF ~is_paused
       THEN /\ pausedAt' = remaining
            /\ resumedAt' = 0
            /\ pausedPolls' = 0
            /\ wasPaused' = TRUE
       ELSE /\ resumedAt' = remaining
            /\ UNCHANGED <<pausedAt, pausedPolls, wasPaused>>
  /\ pc' = "c_toggle_out"
  /\ UNCHANGED <<reminder_lock, ioVars, mainVars, termVars, remaining,
                 is_running, paused_local, tickHist, endVars, remVars>>

\* A bug to test the claims against: the lock is still held after the
\* block.
PauseUnlock_KeepsLock ==
  /\ pc \in {"c_toggle_out", "c_redisplay_out", "c_readpause_out",
              "c_display_out"}
  /\ pc' = CASE pc = "c_toggle_out" -> "c_redisplay"
             [] pc = "c_redisplay_out" -> "c_readpause"
             [] pc = "c_readpause_out" -> "c_display"
             [] pc = "c_display_out" ->
                  IF paused_local THEN "c_psleep" ELSE "c_notify"
  /\ UNCHANGED <<lockVars, ioVars, mainVars, termVars, loopVars,
                 pauseHist, tickHist, endVars, remVars>>

\* The end of a with self.pause_lock block of the main thread: of
\* _toggle_pause (410), of display_timer (366) at lines 438 and 446/459,
\* and of countdown (441).
PauseUnlock ==
  /\ pc \in {"c_toggle_out", "c_redisplay_out", "c_readpause_out",
              "c_display_out"}
  /\ pause_lock' = Free
  /\ pc' = CASE pc = "c_toggle_out" -> "c_redisplay"
             [] pc = "c_redisplay_out" -> "c_readpause"
             [] pc = "c_readpause_out" -> "c_display"
             [] pc = "c_display_out" ->
                  IF paused_local THEN "c_psleep" ELSE "c_notify"
  /\ UNCHANGED <<reminder_lock, ioVars, mainVars, termVars, loopVars,
                 pauseHist, tickHist, endVars, remVars>>

\* countdown line 438: display_timer after the toggle, up to its read of
\* is_paused under the lock (366-367).
Redisplay ==
  /\ pc = "c_redisplay"
  /\ pause_lock = Free
  /\ pause_lock' = MainThread
  /\ pc' = "c_redisplay_out"
  /\ UNCHANGED <<reminder_lock, ioVars, mainVars, termVars, loopVars,
                 pauseHist, tickHist, endVars, remVars>>

\* countdown lines 441-442: is_paused is read under the lock.
ReadPause ==
  /\ pc = "c_readpause"
  /\ pause_lock = Free
  /\ pause_lock' = MainThread
  /\ paused_local' = is_paused
  /\ polled' = "none"
  /\ pc' = "c_readpause_out"
  /\ UNCHANGED <<reminder_lock, loaded, mainVars, termVars, remaining,
                 is_running, is_paused, pauseHist, tickHist, endVars, remVars>>

\* countdown line 445 and display_timer at 446 (running) or 459 (paused),
\* up to its read of is_paused under the lock (366-367).
Display ==
  /\ pc = "c_display"
  /\ pause_lock = Free
  /\ pause_lock' = MainThread
  /\ pc' = "c_display_out"
  /\ UNCHANGED <<reminder_lock, ioVars, mainVars, termVars, loopVars,
                 pauseHist, tickHist, endVars, remVars>>

\* Clips play_time_notification plays twice (lines 249-256, 260-267).
TwiceClips == {"3min", "1min"}

\* pygame.mixer.music.play(): the loaded clip is (re)started; when it is
\* the clip of the latest notification and one of TwiceClips, that is one
\* more play of it.
MusicPlay(events, clip) ==
  IF /\ events # << >>
     /\ clip \in TwiceClips
     /\ events[Len(events)].id = clip
     /\ events[Len(events)].plays < 3
    THEN [events EXCEPT ![Len(events)].plays = @ + 1]
    ELSE events

\* countdown line 449: play_time_notification(remaining, total) up to its
\* first play(): the clip of the branch taken is loaded and started.  The
\* branches of 3 and 1 minutes go on to wait for the playback to end.
Notify ==
  /\ pc = "c_notify"
  /\ LET n == play_time_notification(remaining, total, voice) IN
       /\ fired' = IF n = NoPlay THEN fired
                    ELSE Append(fired, [id |-> n.id, at |-> remaining,
                                        plays |-> 1])
       /\ loaded' = IF n = NoPlay THEN loaded ELSE n.id
       /\ pc' = IF n.plays = 2 THEN "c_notify_wait" ELSE "c_beep"
  /\ lastChecked' = remaining
  /\ UNCHANGED <<lockVars, polled, mainVars, termVars, loopVars, pauseHist,
                 ticks, zeroHits, endVars, remVars>>

\* play_time_notification lines 253-256 and 264-267: get_busy() has
\* returned False, and play() starts the loaded clip again.
NotifyReplay ==
  /\ pc = "c_notify_wait"
  /\ fired' = MusicPlay(fired, loaded)
  /\ pc' = "c_beep"
  /\ UNCHANGED <<lockVars, ioVars, mainVars, termVars, loopVars, pauseHist,
                 ticks, zeroHits, lastChecked, endVars, remVars>>

\* countdown lines 452-453: play_beep (86-93) when remaining <= 5.
Beep ==
  /\ pc = "c_beep"
  /\ loaded' = IF remaining <= 5 /\ "beep" \in voice THEN "beep" ELSE loaded
  /\ pc' = "c_sleep"
  /\ UNCHANGED <<lockVars, polled, mainVars, termVars, loopVars, pauseHist,
                 tickHist, endVars, remVars>>

\* countdown line 455: time.sleep(1).
Sleep ==
  /\ pc = "c_sleep"
  /\ ticks' = ticks + 1
  /\ pc' = "c_dec"
  /\ UNCHANGED <<lockVars, ioVars, mainVars, termVars, loopVars, pauseHist, zeroHits, fired,
                 lastChecked, endVars, remVars>>

\* countdown line 456: remaining_seconds -= 1.
Decrement ==
  /\ pc = "c_dec"
  /\ remaining' = remaining - 1
  /\ zeroHits' = IF remaining - 1 = 0 THEN zeroHits + 1 ELSE zeroHits
  /\ pausedAt' = 0 /\ resumedAt' = 0 /\ pausedPolls' = 0
  /\ pc' = "c_loop"
  /\ UNCHANGED <<lockVars, ioVars, mainVars, termVars, is_running, is_paused, paused_local,
                 wasPaused, ticks, fired, lastChecked, endVars, remVars>>

\* A bug to test the claims against: a paused cycle also runs the
\* notification check.
PausedSleep_Notifies ==
  /\ pc = "c_psleep"
  /\ LET n == play_time_notification(remaining, total, voice) IN
       fired' = IF n = NoPlay THEN fired
                ELSE Append(fired, [id |-> n.id, at |-> remaining,
                                    plays |-> n.plays])
  /\ pausedPolls' = IF pausedPolls < MaxPausedPolls THEN pausedPolls + 1
                    ELSE pausedPolls
  /\ pc' = "c_loop"
  /\ UNCHANGED <<lockVars, ioVars, mainVars, termVars, loopVars, pausedAt, resumedAt,
                 wasPaused, ticks, zeroHits, lastChecked, endVars, remVars>>

\* A bug to test the claims against: a paused cycle also counts down.
PausedSleep_Decrements ==
  /\ pc = "c_psleep"
  /\ remaining' = remaining - 1
  /\ pausedPolls' = IF pausedPolls < MaxPausedPolls THEN pausedPolls + 1
                    ELSE pausedPolls
  /\ pc' = "c_loop"
  /\ UNCHANGED <<lockVars, ioVars, mainVars, termVars, is_running, is_paused, paused_local,
                 pausedAt, resumedAt, wasPaused, tickHist, endVars, remVars>>

\* countdown line 460: time.sleep(0.1) of a paused cycle.
PausedSleep ==
  /\ pc = "c_psleep"
  /\ pausedPolls' = IF pausedPolls < MaxPausedPolls THEN pausedPolls + 1
                    ELSE pausedPolls
  /\ pc' = "c_loop"
  /\ UNCHANGED <<lockVars, ioVars, mainVars, termVars, loopVars, pausedAt, resumedAt,
                 wasPaused, tickHist, endVars, remVars>>
\* -------------------------------------------- countdown: completion path

\* countdown line 463, reached when the while condition fails.
Done ==
  /\ pc = "c_done"
  /\ pc' = IF is_running THEN "fin_restore" ELSE "f_restore"
  /\ UNCHANGED <<lockVars, ioVars, mainVars, termVars, loopVars, pauseHist, tickHist, endVars,
                 remVars>>

\* countdown lines 465-467: tcsetattr(old_settings) if it is set.
FinRestore ==
  /\ pc = "fin_restore"
  /\ IF old_settings
       THEN raw' = FALSE /\ releases' = releases + 1 /\ pc' = "fin_clear"
       ELSE raw' = raw /\ releases' = releases /\ pc' = "fin_screen"
  /\ UNCHANGED <<lockVars, ioVars, mainVars, old_settings, acquires, loopVars, pauseHist,
                 tickHist, endVars, remVars>>

\* countdown line 468: self.old_settings = None.
FinClear ==
  /\ pc = "fin_clear"
  /\ old_settings' = FALSE
  /\ pc' = "fin_screen"
  /\ UNCHANGED <<lockVars, ioVars, mainVars, raw, acquires, releases, loopVars, pauseHist,
                 tickHist, endVars, remVars>>

\* countdown lines 473-487: the completion screen.
FinScreen ==
  /\ pc = "fin_screen"
  /\ pc' = "fin_sound"
  /\ UNCHANGED <<lockVars, ioVars, mainVars, termVars, loopVars, pauseHist, tickHist, endVars,
                 remVars>>

\* countdown lines 490-493 with play_sound (72-84): the completion clip
\* is loaded and started if its file exists.
FinSound ==
  /\ pc = "fin_sound"
  /\ loaded' = IF "end" \in voice THEN "end" ELSE loaded
  /\ pc' = IF "end" \in voice THEN "fin_sound_wait" ELSE "fin_log"
  /\ UNCHANGED <<lockVars, polled, mainVars, termVars, loopVars, pauseHist,
                 tickHist, endVars, remVars>>

\* play_sound lines 79-80: get_busy() has returned False.
FinSoundWait ==
  /\ pc = "fin_sound_wait"
  /\ pc' = "fin_log"
  /\ UNCHANGED <<lockVars, ioVars, mainVars, termVars, loopVars, pauseHist,
                 tickHist, endVars, remVars>>

\* log_timer_complete, lines 147-156, on the record of log_number.
log_timer_complete(entry) ==
  [entry EXCEPT !.status = "complete", !.completed = TRUE,
                !.completed_datetime = TRUE]

\* countdown lines 496-497.
FinLog ==
  /\ pc = "fin_log"
  /\ log_entry' = log_timer_complete(log_entry)
  /\ pc' = "fin_reminder"
  /\ UNCHANGED <<lockVars, ioVars, session, total, reminder_thread, voice,
                 stdin, paused_before, termVars, loopVars, pauseHist, tickHist,
                 endVars,
                 remVars>>

\* start_reminder_thread, lines 172-174: the lock is taken and the flag
\* set.
StartReminder ==
  /\ pc = "fin_reminder"
  /\ reminder_lock = Free
  /\ reminder_lock' = MainThread
  /\ reminder_active' = TRUE
  /\ pc' = "fin_reminder_out"
  /\ UNCHANGED <<pause_lock, ioVars, mainVars, termVars, loopVars, pauseHist,
                 tickHist, endVars, threads>>

\* start_reminder_thread, end of the with block of line 172.
StartUnlock ==
  /\ pc = "fin_reminder_out"
  /\ reminder_lock' = Free
  /\ pc' = "fin_spawn"
  /\ UNCHANGED <<pause_lock, ioVars, mainVars, termVars, loopVars, pauseHist,
                 tickHist, endVars, remVars>>

\* start_reminder_thread, lines 204-205: a new daemon thread runs
\* reminder_loop; Thread.start() then waits for the thread to report
\* that it is running.
SpawnReminder ==
  /\ pc = "fin_spawn"
  /\ threads' = [threads EXCEPT ![session] = "sleep0"]
  /\ reminder_thread' = session
  /\ pc' = "fin_started"
  /\ UNCHANGED <<lockVars, ioVars, session, total, log_entry, voice, stdin,
                 paused_before,
                 termVars, loopVars, pauseHist, tickHist, endVars,
                 reminder_active>>

\* Thread.start() and start_reminder_thread return (line 500): the try
\* body of countdown ends here.
SpawnReturn ==
  /\ pc = "fin_started"
  /\ outcome' = "Completed"
  /\ pc' = "f_restore"
  /\ UNCHANGED <<lockVars, ioVars, mainVars, termVars, loopVars, pauseHist,
                 tickHist, shown, pending, cancelAt, remVars>>

\* ----------------------------------- countdown: except KeyboardInterrupt

\* countdown line 503.
HFlag ==
  /\ pc = "h_flag"
  /\ is_running' = FALSE
  /\ pc' = "h_restore"
  /\ UNCHANGED <<lockVars, ioVars, mainVars, termVars, remaining, is_paused, paused_local,
                 pauseHist, tickHist, endVars, remVars>>

\* countdown lines 505-507.
HRestore ==
  /\ pc = "h_restore"
  /\ IF old_settings
       THEN raw' = FALSE /\ releases' = releases + 1 /\ pc' = "h_clear"
       ELSE raw' = raw /\ releases' = releases /\ pc' = "h_screen"
  /\ UNCHANGED <<lockVars, ioVars, mainVars, old_settings, acquires, loopVars, pauseHist,
                 tickHist, endVars, remVars>>

\* countdown line 508.
HClear ==
  /\ pc = "h_clear"
  /\ old_settings' = FALSE
  /\ pc' = "h_screen"
  /\ UNCHANGED <<lockVars, ioVars, mainVars, raw, acquires, releases, loopVars, pauseHist,
                 tickHist, endVars, remVars>>

\* A bug to test the claims against: the elapsed time is reported.
StopValue_Elapsed == total - remaining

\* The remaining time the stop path reports (lines 521 and 529).
StopValue == remaining

\* countdown lines 513-525: the stop screen with the remaining time.
HScreen ==
  /\ pc = "h_screen"
  /\ shown' = StopValue
  /\ outcome' = "Stopped"
  /\ pc' = "h_log"
  /\ UNCHANGED <<lockVars, ioVars, mainVars, termVars, loopVars, pauseHist, tickHist, pending,
                 cancelAt, remVars>>

\* log_timer_stop, lines 158-168, on the record of log_number.
log_timer_stop(entry, remaining_seconds) ==
  [entry EXCEPT !.status = "stop", !.completed = FALSE,
                !.remaining = remaining_seconds, !.stopped_datetime = TRUE]

\* countdown lines 528-529.
HLog ==
  /\ pc = "h_log"
  /\ log_entry' = log_timer_stop(log_entry, StopValue)
  /\ pc' = "f_restore"
  /\ UNCHANGED <<lockVars, ioVars, session, total, reminder_thread, voice,
                 stdin, paused_before, termVars, loopVars, pauseHist, tickHist,
                 endVars,
                 remVars>>

\* ------------------------------------------------- countdown: finally

\* Where control goes when countdown ends: back to main line 718, or, with
\* an exception in flight, to main's handlers (lines 736-741) and sys.exit.
AfterCountdown == IF pending = "none" THEN "again" ELSE "exit"

\* countdown lines 533-535.
FRestore ==
  /\ pc = "f_restore"
  /\ IF old_settings
       THEN raw' = FALSE /\ releases' = releases + 1 /\ pc' = "f_clear"
       ELSE raw' = raw /\ releases' = releases /\ pc' = AfterCountdown
  /\ UNCHANGED <<lockVars, ioVars, mainVars, old_settings, acquires, loopVars, pauseHist,
                 tickHist, endVars, remVars>>

\* countdown line 536.
FClear ==
  /\ pc = "f_clear"
  /\ old_settings' = FALSE
  /\ pc' = AfterCountdown
  /\ UNCHANGED <<lockVars, ioVars, mainVars, raw, acquires, releases, loopVars, pauseHist,
                 tickHist, endVars, remVars>>

\* ---------------------------------------------------------- exceptions

\* The pause history describes the running loop: it ends when an exception
\* leaves the loop, except when the poll swallows it.
LeaveLoop ==
  IF pc' \in LoopPcs
    THEN UNCHANGED pauseHist
    ELSE pausedAt' = 0 /\ resumedAt' = 0 /\ pausedPolls' = 0
         /\ UNCHANGED wasPaused

\* An exception leaving a with block releases its lock.
WithExit ==
  /\ pause_lock' = IF pause_lock = MainThread THEN Free ELSE pause_lock
  /\ reminder_lock' = IF reminder_lock = MainThread THEN Free
                       ELSE reminder_lock

\* SIGINT: KeyboardInterrupt is raised in the main thread before the
\* statement at pc.
KeyboardInterrupt ==
  /\ \/ \* input() of get_user_input and main: sys.exit(0) (567-569,
        \* 613-615, 729-731); elsewhere in main: lines 736-738.
        /\ pc \in InputPcs \cup MainPcs
        /\ pc' = "exit"
        /\ UNCHANGED <<pending, cancelAt>>
     \/ \* before countdown's try: nothing in countdown catches it.
        /\ pc \in EntryPcs
        /\ pending' = "KeyboardInterrupt"
        /\ pc' = "exit"
        /\ UNCHANGED cancelAt
     \/ \* inside _check_keyboard_input's try (399-405): caught there,
        \* the poll returns None.
        /\ pc = "c_poll"
        /\ pc' = "c_readpause"
        /\ UNCHANGED <<pending, cancelAt>>
     \/ \* inside countdown's try: the handler of line 502.
        /\ pc \in TryPcs
        /\ cancelAt' = remaining
        /\ pc' = "h_flag"
        /\ UNCHANGED pending
     \/ \* inside the handler: the finally clause runs, then it propagates.
        /\ pc \in HandlerPcs
        /\ pending' = "KeyboardInterrupt"
        /\ pc' = "f_restore"
        /\ UNCHANGED cancelAt
     \/ \* inside the finally clause: the rest of it is skipped.
        /\ pc \in FinallyPcs
        /\ pending' = "KeyboardInterrupt"
        /\ pc' = "exit"
        /\ UNCHANGED cancelAt
  /\ LeaveLoop
  /\ WithExit
  /\ polled' = IF pc = "c_poll" THEN "KeyboardInterrupt" ELSE "none"
  /\ UNCHANGED <<loaded, mainVars, termVars, loopVars, tickHist, shown,
                 outcome, remVars>>

\* An exception other than KeyboardInterrupt raised by a print of the
\* statement at pc: the finally clause runs, then it propagates.
Fault ==
  /\ pc \in FaultPcs
  /\ pending' = "fault"
  /\ pc' = "f_restore"
  /\ LeaveLoop
  /\ polled' = "none"
  /\ UNCHANGED <<lockVars, loaded, mainVars, termVars, loopVars, tickHist,
                 shown, outcome, cancelAt, remVars>>

\* ------------------------------------------------------- reminder_loop

\* reminder_loop lines 178 and 202: a time.sleep(5 * 60) ends.
ReminderWake(i) ==
  /\ pc # "exit"
  /\ threads[i] \in {"sleep0", "sleep"}
  /\ threads' = [threads EXCEPT ![i] = "check"]
  /\ UNCHANGED <<pc, lockVars, ioVars, mainVars, termVars, loopVars,
                 pauseHist, tickHist, endVars, reminder_active>>

\* reminder_loop lines 181-182: the lock is taken and the flag read.
ReminderCheck(i) ==
  /\ pc # "exit"
  /\ threads[i] = "check"
  /\ reminder_lock = Free
  /\ reminder_lock' = ReminderCtx(i)
  /\ threads' = [threads EXCEPT ![i] = IF reminder_active THEN "locked_go"
                                       ELSE "locked_break"]
  /\ UNCHANGED <<pc, pause_lock, ioVars, mainVars, termVars, loopVars,
                 pauseHist, tickHist, endVars, reminder_active>>

\* reminder_loop line 183 and the end of the with block of line 181.
ReminderUnlock(i) ==
  /\ pc # "exit"
  /\ threads[i] \in {"locked_go", "locked_break"}
  /\ reminder_lock' = Free
  /\ threads' = [threads EXCEPT ![i] = IF threads[i] = "locked_go" THEN "play"
                                       ELSE "done"]
  /\ UNCHANGED <<pc, pause_lock, ioVars, mainVars, termVars, loopVars,
                 pauseHist, tickHist, endVars, reminder_active>>

\* reminder_loop lines 186-189: the reminder clip is loaded and started
\* if its file exists.
ReminderPlay(i) ==
  /\ pc # "exit"
  /\ threads[i] = "play"
  /\ loaded' = IF "reminder" \in voice THEN "reminder" ELSE loaded
  /\ threads' = [threads EXCEPT ![i] = IF "reminder" \in voice THEN "wait1"
                                       ELSE "sleep"]
  /\ UNCHANGED <<pc, lockVars, polled, mainVars, termVars, loopVars,
                 pauseHist, tickHist, endVars, reminder_active>>

\* reminder_loop lines 191-194: get_busy() has returned False, and play()
\* starts the loaded clip again.
ReminderReplay(i) ==
  /\ pc # "exit"
  /\ threads[i] = "wait1"
  /\ fired' = MusicPlay(fired, loaded)
  /\ threads' = [threads EXCEPT ![i] = "wait2"]
  /\ UNCHANGED <<pc, lockVars, ioVars, mainVars, termVars, loopVars,
                 pauseHist, ticks, zeroHits, lastChecked, endVars,
                 reminder_active>>

\* reminder_loop lines 196-197: get_busy() has returned False.
ReminderRest(i) ==
  /\ pc # "exit"
  /\ threads[i] = "wait2"
  /\ threads' = [threads EXCEPT ![i] = "sleep"]
  /\ UNCHANGED <<pc, lockVars, ioVars, mainVars, termVars, loopVars,
                 pauseHist, tickHist, endVars, reminder_active>>

\* One step of the reminder thread started by session i.
ReminderStep(i) ==
  \/ ReminderWake(i) \/ ReminderCheck(i) \/ ReminderUnlock(i)
  \/ ReminderPlay(i) \/ ReminderReplay(i) \/ ReminderRest(i)

\* ------------------------------------------------------ specifications

\* The durations of Spec are all below a minute, so the replay of the 3-
\* and 1-minute clips (NotifyReplay) is never reached there; it is a step
\* of NextSession.
Next ==
  \/ StopReminder \/ StopUnlock \/ Join \/ Prompt \/ LogStart \/ Delay \/ Again
  \/ CountdownInit \/ GetAttr \/ SetCbreak \/ EnterTry
  \/ LoopTest \/ Poll \/ TogglePause \/ PauseUnlock \/ Redisplay
  \/ ReadPause \/ Display \/ Notify \/ Beep \/ Sleep
  \/ Decrement \/ PausedSleep
  \/ Done \/ FinRestore \/ FinClear \/ FinScreen \/ FinSound \/ FinSoundWait
  \/ FinLog \/ StartReminder \/ StartUnlock \/ SpawnReminder \/ SpawnReturn
  \/ HFlag \/ HRestore \/ HClear \/ HScreen \/ HLog
  \/ FRestore \/ FClear
  \/ KeyboardInterrupt \/ Fault
  \/ \E i \in Sessions : ReminderStep(i)

\* The program from its start, with durations entered by hand.
Spec == Init /\ [][Next]_vars

\* One session: countdown from its call to its end, and the reminder
\* thread it starts.
NextSession ==
  \/ EnterTry
  \/ LoopTest \/ Poll \/ TogglePause \/ PauseUnlock \/ Redisplay
  \/ ReadPause \/ Display \/ Notify \/ NotifyReplay \/ Beep \/ Sleep
  \/ Decrement \/ PausedSleep
  \/ Done \/ FinRestore \/ FinClear \/ FinScreen \/ FinSound \/ FinSoundWait
  \/ FinLog \/ StartReminder \/ StartUnlock \/ SpawnReminder \/ SpawnReturn
  \/ HFlag \/ HRestore \/ HClear \/ HScreen \/ HLog
  \/ FRestore \/ FClear
  \/ KeyboardInterrupt \/ Fault
  \/ \E i \in Sessions : ReminderStep(i)

SpecSession == InitSession /\ [][NextSession]_vars

\* Durations of the session of SpecReplay: one second, and one minute.
ReplayDurations == {1, 60}

\* The second session about to enter the try statement of countdown (line
\* 431) while the reminder thread of the first, completed session is still
\* inside its playback (lines 189-192): it passed its check of the flag
\* before stop_reminder_thread cleared it, join(timeout=1) gave up on it,
\* and the beeps of main line 712 have replaced its clip in the player.
InitReplay ==
  /\ pc = "c_try"
  /\ session = 2
  /\ total \in ReplayDurations
  /\ remaining = total
  /\ is_running = TRUE
  /\ is_paused = FALSE
  /\ paused_local = FALSE
  /\ old_settings = TRUE
  /\ raw = TRUE
  /\ pending = "none"
  /\ reminder_active = FALSE
  /\ reminder_thread = 1
  /\ threads = [i \in Sessions |-> IF i = 1 THEN "wait1" ELSE "none"]
  /\ log_entry = StartRecord(2)
  /\ voice = AllClips
  /\ stdin = "tty"
  /\ pause_lock = Free
  /\ reminder_lock = Free
  /\ loaded = "beep"
  /\ polled = "none"
  /\ paused_before = FALSE
  /\ shown = -1
  /\ outcome = "none"
  /\ acquires = 1
  /\ releases = 0
  /\ ticks = 0
  /\ zeroHits = 0
  /\ fired = << >>
  /\ lastChecked = 0
  /\ pausedAt = 0
  /\ resumedAt = 0
  /\ pausedPolls = 0
  /\ wasPaused = FALSE
  /\ cancelAt = -1

\* The second session while the reminder thread of the first is alive.
SpecReplay == InitReplay /\ [][NextSession]_vars

\* One step of countdown in the main thread.
CountdownStep ==
  \/ CountdownInit \/ GetAttr \/ SetCbreak \/ EnterTry
  \/ LoopTest \/ Poll \/ TogglePause \/ PauseUnlock \/ Redisplay
  \/ ReadPause \/ Display \/ Notify \/ NotifyReplay \/ Beep \/ Sleep
  \/ Decrement \/ PausedSleep
  \/ Done \/ FinRestore \/ FinClear \/ FinScreen \/ FinSound \/ FinSoundWait
  \/ FinLog \/ StartReminder \/ StartUnlock \/ SpawnReminder \/ SpawnReturn
  \/ HFlag \/ HRestore \/ HClear \/ HScreen \/ HLog
  \/ FRestore \/ FClear

\* Durations of the session of SpecFair.
FairDurations == {1, 60}

\* InitSession with the durations of SpecFair.
InitFair == InitSession /\ total \in FairDurations

\* One session under a fair scheduler: the main thread inside countdown and
\* each reminder thread keep being scheduled, so sleeps, waits for the end
\* of a playback and lock acquisitions end.  Nothing is assumed of the
\* user: keys and SIGINT are free.
SpecFair ==
  /\ InitFair
  /\ [][NextSession]_vars
  /\ WF_vars(CountdownStep)
  /\ \A i \in Sessions : WF_vars(ReminderStep(i))
\* -------------------------------------------------------------- claims

\* Notifications of the current countdown with the given id, and at the
\* given remaining value.
FiredWithId(id) == {i \in DOMAIN fired : fired[i].id = id}
FiredAt(r) == {i \in DOMAIN fired : fired[i].at = r}

\* The unpaused cycle at remaining value r has run its notification check.
CheckedAt(r) ==
  /\ r <= total
  /\ remaining < r \/ (remaining = r /\ lastChecked = r)

\* The fixed thresholds as the specification lists them.
FixedTable ==
  {[id |-> "15min", at |-> 15 * 60], [id |-> "10min", at |-> 10 * 60],
   [id |-> "5min", at |-> 5 * 60], [id |-> "3min", at |-> 3 * 60],
   [id |-> "1min", at |-> 1 * 60], [id |-> "30sec", at |-> 30],
   [id |-> "10sec", at |-> 10]}
FixedValues == {th.at : th \in FixedTable}
FixedIdAt(r) == (CHOOSE th \in FixedTable : th.at = r).id

\* C1: a countdown leaves its loop only after exactly total one-second
\* cycles (time.sleep(1) calls), with remaining brought to 0 exactly once;
\* and a countdown that returns to main without having taken the stop path
\* has outcome Completed with those same counts.
C1_UninterruptedCompletes ==
  /\ zeroHits <= 1
  /\ pc \in FinalizePcs =>
       remaining = 0 /\ ticks = total /\ zeroHits = 1
  /\ (pc = "again" /\ is_running) =>
       /\ outcome = "Completed"
       /\ remaining = 0 /\ ticks = total /\ zeroHits = 1

\* C1 witness: a 20-second countdown, never paused and never cancelled,
\* has returned Completed after 20 cycles.
C1_Witness ==
  /\ pc = "again" /\ outcome = "Completed"
  /\ ~wasPaused /\ cancelAt = -1
  /\ total = 20 /\ ticks = 20 /\ zeroHits = 1 /\ remaining = 0

\* C2: in every state of a session, each fixed threshold whose clip exists
\* (900 only when total >= 1800) has fired exactly once, at its own
\* remaining value, if the unpaused cycle at that value has run its check,
\* and has not fired at all otherwise, whatever pauses, resumes or
\* cancellation happened.
C2_FixedThresholdsOnce ==
  \A th \in FixedTable :
    IF /\ CheckedAt(th.at)
       /\ th.id \in voice
       /\ th.at = 15 * 60 => total >= 30 * 60
      THEN /\ Cardinality(FiredWithId(th.id)) = 1
           /\ \A i \in FiredWithId(th.id) : fired[i].at = th.at
      ELSE FiredWithId(th.id) = {}

\* C2 witness: a session paused at remaining 600 for some cycles and
\* resumed there has just run the check at 600, with "10min" fired once.
C2_Witness ==
  /\ resumedAt = 10 * 60 /\ pausedPolls = MaxPausedPolls
  /\ remaining = 10 * 60 /\ lastChecked = 10 * 60
  /\ Cardinality(FiredWithId("10min")) = 1

\* C3: while the loop runs with the session paused, remaining is the value
\* it had when the pause began, however many paused cycles have passed; at
\* resume it is still that value.
C3_PauseFreezesRemaining ==
  /\ (pc \in LoopPcs /\ is_paused) => remaining = pausedAt
  /\ (pc \in LoopPcs /\ resumedAt # 0) =>
       resumedAt = pausedAt /\ remaining = resumedAt

\* C3 witness: resumed at the value paused at, after the paused-cycle
\* counter reached its cap.
C3_Witness ==
  /\ pc = "c_redisplay" /\ ~is_paused
  /\ resumedAt > 0 /\ resumedAt = pausedAt /\ remaining = resumedAt
  /\ pausedPolls = MaxPausedPolls

\* C4 (as claimed): no countdown call restores the terminal mode twice,
\* and once a call that acquired cbreak mode has ended (returned to main
\* or propagated to sys.exit), it has restored it exactly once.
C4_RestoredExactlyOnce ==
  /\ releases <= 1
  /\ (pc \in {"again", "exit"} /\ acquires = 1) => releases = 1 /\ ~raw

\* C5 (as claimed): at most one reminder thread is alive at any time.
C5_AtMostOneReminderLoop ==
  pc # "exit" => Cardinality(AliveThreads) <= 1

\* C6 (as claimed): at the first tick of a session no reminder loop is
\* active: the flag is false and every reminder thread has exited.
C6_PriorLoopStoppedBeforeFirstTick ==
  (pc = "c_sleep" /\ ticks = 0) => ~reminder_active /\ AliveThreads = {}

\* C7: the stop screen and the stop record carry exactly the remaining
\* value the session had when the cancellation reached the handler, the
\* record has completed = false, and remaining does not change after that.
C7_StopReportsRemaining ==
  /\ cancelAt # -1 => remaining = cancelAt
  /\ shown # -1 => shown = cancelAt /\ outcome = "Stopped"
  /\ log_entry.status = "stop" =>
       /\ log_entry.remaining = cancelAt
       /\ log_entry.completed = FALSE
       /\ shown = cancelAt

\* C7 witness: a 20-minute session cancelled while paused at 437 has
\* written its stop record.
C7_Witness ==
  /\ total = 20 * 60 /\ is_paused /\ cancelAt = 437
  /\ outcome = "Stopped" /\ shown = 437
  /\ log_entry = [number |-> 1, status |-> "stop", completed |-> FALSE,
                  remaining |-> 437, completed_datetime |-> FALSE,
                  stopped_datetime |-> TRUE]

\* C8 (as claimed): a KeyboardInterrupt raised while the countdown loop
\* runs takes control to the stop path at once.
C8_CancellationStops ==
  [][(KeyboardInterrupt /\ pc \in LoopPcs) => pc' = "h_flag"]_vars

\* The half-time notification of a completed session whose half clip
\* exists: fired once, at total // 2, iff total // 2 is no fixed value.
HalfIffNoCollision ==
  /\ Cardinality(FiredWithId("half")) = 1 <=> (total \div 2) \notin FixedValues
  /\ \A i \in FiredWithId("half") : fired[i].at = total \div 2

\* C9 (as claimed): for every total >= 1.
C9_HalfIffNoCollision_AnyTotal ==
  (outcome = "Completed" /\ "half" \in voice) => HalfIffNoCollision

\* C9 (amended): for every total >= 2.
C9_HalfIffNoCollision ==
  (outcome = "Completed" /\ "half" \in voice /\ total >= 2)
    => HalfIffNoCollision

\* C9 witness: a completed 25-second session fired "half" once, at 12.
C9_Witness ==
  /\ outcome = "Completed" /\ total = 25
  /\ FiredWithId("half") # {}
  /\ \A i \in FiredWithId("half") : fired[i].at = 12

\* C10: when total // 2 is a fixed threshold value, "half" never fires, no
\* remaining value carries two notifications, and once the cycle at
\* total // 2 has run its check it has fired the fixed id there, once.
C10_CollisionFiresFixedOnly ==
  (total \div 2) \in FixedValues =>
    /\ FiredWithId("half") = {}
    /\ Cardinality(FiredAt(total \div 2)) <= 1
    /\ (CheckedAt(total \div 2) /\ FixedIdAt(total \div 2) \in voice) =>
         /\ Cardinality(FiredAt(total \div 2)) = 1
         /\ \A i \in FiredAt(total \div 2) :
              fired[i].id = FixedIdAt(total \div 2)

\* C10 witness: a 30-minute session past remaining 900 with the single
\* event "15min" there.
C10_Witness ==
  /\ total = 30 * 60 /\ remaining < 15 * 60
  /\ Cardinality(FiredAt(15 * 60)) = 1
  /\ \A i \in FiredAt(15 * 60) : fired[i].id = "15min" /\ fired[i].plays = 1

\* The clips played twice, once play_time_notification has returned.
NotificationReturned(i) ==
  \/ remaining < fired[i].at
  \/ pc \in {"c_beep", "c_sleep", "c_dec"}

\* C11 (as claimed): once play_time_notification has returned from its
\* 3-minute or 1-minute branch (clip present), that clip has been started
\* exactly twice: once before the wait for the end of the playback and
\* once after it, and by nothing else.
C11_TwiceClipsPlayTwice ==
  \A i \in DOMAIN fired :
    (fired[i].id \in TwiceClips /\ NotificationReturned(i))
      => fired[i].plays = 2

\* C12 (as claimed): once stop_reminder_thread has returned and while the
\* flag stays false, no reminder thread is still in a 5-minute sleep or
\* about to start a playback.
C12_StoppedLoopExitsPromptly ==
  (pc \notin {"stop_reminder_out", "join", "exit"} /\ ~reminder_active)
    => \A i \in Sessions : threads[i] \notin {"sleep0", "sleep", "play"}

\* C13 (as claimed): remaining stays within 0 .. total; it is 0 when the
\* outcome is Completed; and when the outcome is Stopped (stop screen
\* shown, stop record written) it is above 0, as are the values shown and
\* recorded.
C13_RemainingAtOutcome ==
  /\ 0 <= remaining /\ remaining <= total
  /\ outcome = "Completed" => remaining = 0
  /\ outcome = "Stopped" => remaining > 0 /\ shown > 0
  /\ log_entry.stopped_datetime => log_entry.remaining > 0

\* C14: a poll that meets an OSError or a ValueError returns None without
\* propagating (the cycle goes on to read the pause flag, which is
\* unchanged, and no exception is in flight); and a countdown whose cbreak
\* mode was not acquired, or all of whose polls fail, leaves its loop only
\* after total one-second cycles and, unless cancelled, returns Completed.
C14_BrokenPollerCounts ==
  /\ polled \in PollErrors =>
       pc = "c_readpause" /\ pending = "none" /\ is_paused = paused_local
  /\ (pc \in FinalizePcs /\ (acquires = 0 \/ stdin = "nofileno")) =>
       ticks = total /\ remaining = 0
  /\ stdin = "nofileno" => ~wasPaused
  /\ (pc = "again" /\ session > 0 /\ cancelAt = -1 /\ stdin = "nofileno") =>
       outcome = "Completed" /\ ticks = total

\* C14 witness: with a stdin that has no file descriptor (cbreak mode not
\* acquired, every poll failing), a 20-second countdown has returned
\* Completed after 20 cycles.
C14_Witness ==
  /\ stdin = "nofileno" /\ acquires = 0
  /\ pc = "again" /\ outcome = "Completed"
  /\ total = 20 /\ ticks = 20 /\ remaining = 0

\* The reference rule of the specification, fixed table first.
Reference(r, t) ==
  IF r \in {600, 300, 180, 60, 30, 10} \/ (r = 900 /\ t >= 1800)
    THEN FixedIdAt(r)
  ELSE IF r = t \div 2 THEN "half"
  ELSE "none"

\* C15: no remaining value carries two notifications; every notification
\* started is the one the reference rule selects for its (remaining,
\* total); and the check just run at a remaining value r >= 1 started the
\* clip of the reference rule if that clip exists, and nothing otherwise.
C15_SelectsReference ==
  /\ \A i, j \in DOMAIN fired : fired[i].at = fired[j].at => i = j
  /\ \A i \in DOMAIN fired : fired[i].id = Reference(fired[i].at, total)
  /\ lastChecked >= 1 =>
       (Reference(lastChecked, total) \in voice <=> FiredAt(lastChecked) # {})

\* C15 witness: a 20-minute session has just run the check at 600, where
\* total // 2 meets a fixed value and "10min" was started, after nothing
\* was started at 900.
C15_Witness ==
  /\ total = 20 * 60 /\ lastChecked = 10 * 60
  /\ FiredAt(15 * 60) = {}
  /\ \E i \in FiredAt(10 * 60) : fired[i].id = "10min"

\* C16 (as claimed): when a session whose start record was written has
\* ended (countdown returned to main, or the program exited), exactly one
\* of completed_datetime and stopped_datetime is written in its record.
C16_ExactlyOneOutcomeLogged ==
  (pc \in {"again", "exit"} /\ log_entry.number # 0)
    => (log_entry.completed_datetime # log_entry.stopped_datetime)

\* C17 (as claimed): every step that writes is_paused or reads it
\* (countdown's read, display_timer's read) is taken holding pause_lock,
\* and every step that writes reminder_active or reads it (the loop's
\* check) is taken holding reminder_lock.
C17_FlagsUnderLocks ==
  [][/\ is_paused' # is_paused => pause_lock' = MainThread
     /\ (ReadPause \/ Redisplay \/ Display) => pause_lock' = MainThread
     /\ reminder_active' # reminder_active => reminder_lock' = MainThread
     /\ \A i \in Sessions :
          ReminderCheck(i) => reminder_lock' = ReminderCtx(i)]_vars

\* C18: no context holds both locks; a context about to acquire one lock
\* does not hold the other; and a held lock is held by a context that is
\* at the end of its with block, about to release it, so no context waits
\* for a lock forever.
C18_NoNestedLocks ==
  /\ pause_lock \in {Free, MainThread}
  /\ ~(pause_lock # Free /\ pause_lock = reminder_lock)
  /\ pc \in {"c_toggle", "c_redisplay", "c_readpause", "c_display"} =>
       reminder_lock # MainThread /\ pause_lock # MainThread
  /\ pc \in {"stop_reminder", "fin_reminder"} =>
       pause_lock # MainThread /\ reminder_lock # MainThread
  /\ pause_lock = MainThread =>
       pc \in {"c_toggle_out", "c_redisplay_out", "c_readpause_out",
               "c_display_out"}
  /\ reminder_lock = MainThread =>
       pc \in {"stop_reminder_out", "fin_reminder_out"}
  /\ \A i \in Sessions :
       /\ threads[i] = "check" => pause_lock # ReminderCtx(i)
       /\ reminder_lock = ReminderCtx(i) <=>
            threads[i] \in {"locked_go", "locked_break"}

\* C18 witness: the countdown loop holds the pause lock while the reminder
\* thread of the previous session holds the reminder lock.
C18_Witness ==
  /\ pause_lock = MainThread /\ pc = "c_readpause_out"
  /\ reminder_lock = ReminderCtx(1) /\ session = 2

\* C19: in the loop, is_paused differs from the value countdown read in
\* the previous cycle exactly when this cycle's poll met `p` or `P` and
\* _toggle_pause has run, once; with any other key, no key or a failed
\* poll the cycle reads the pause flag as it was.
C19_PauseOnlyByKey ==
  /\ pc = "c_toggle" => polled \in {"p", "P"} /\ is_paused = paused_local
  /\ pc \in {"c_toggle_out", "c_redisplay", "c_redisplay_out"} =>
       polled \in {"p", "P"} /\ is_paused = ~paused_local
  /\ pc = "c_readpause" =>
       (is_paused = ~paused_local <=> polled \in {"p", "P"})
  /\ pc \in LoopPcs \ {"c_toggle", "c_toggle_out", "c_redisplay",
                        "c_redisplay_out", "c_readpause"} =>
       is_paused = paused_local /\ polled = "none"

\* C19 witness: a session paused for some cycles has been resumed by `P`
\* and is about to read the flag.
C19_Witness ==
  /\ pc = "c_readpause" /\ polled = "P"
  /\ ~is_paused /\ paused_local /\ pausedPolls > 0

\* C20 (as claimed): under the fair scheduler, a countdown whose loop has
\* started and that is not left paused forever eventually has outcome
\* Completed or Stopped.
C20_CountdownTerminates ==
  ([]<>(~is_paused))
    => ((pc \in LoopPcs) ~> (outcome \in {"Completed", "Stopped"}))

\* C21 (as claimed): a reminder thread begins a playback (it has read the
\* flag as set, lines 181-183, and goes on to line 186) only once the
\* 5-minute wait that followed the most recent start_reminder_thread is
\* over, that is, not while the thread of that call is still in its first
\* time.sleep(5 * 60) of line 178.
C21_NoPlaybackBeforeFullDelay ==
  \A i \in Sessions :
    (threads[i] \in {"locked_go", "play"} /\ reminder_thread # 0)
      => threads[reminder_thread] # "sleep0"

\* C22 (as claimed): a session that is Completed has started its reminder
\* thread, after the completion record was written; a session that is
\* Stopped has started none.
C22_ReminderIffCompleted ==
  /\ outcome = "Completed" =>
       threads[session] # "none" /\ log_entry.completed_datetime
  /\ outcome = "Stopped" => threads[session] = "none"
  /\ \A i \in Sessions : i > session => threads[i] = "none"

\* C23 (as claimed): a cycle that has called play_beep (remaining <= 5,
\* lines 452-453) has started no notification in its call of
\* play_time_notification (line 449), so the beep replaces no clip started
\* in the same cycle.
C23_NoCueOverNotification ==
  (pc = "c_sleep" /\ remaining <= 5) => FiredAt(remaining) = {}

\* C24: countdown enters its loop with the pause flag cleared and
\* remaining equal to total, whatever the flag was when the previous call
\* ended; and the flag is clear while the completion branch runs and
\* when the session is Completed.
C24_SessionStartsRunning ==
  /\ pc \in {"c_getattr", "c_setcbreak", "c_try"} =>
       ~is_paused /\ is_running /\ remaining = total
  /\ (pc = "c_loop" /\ ticks = 0 /\ ~wasPaused) =>
       ~is_paused /\ remaining = total
  /\ pc \in FinalizePcs => ~is_paused /\ remaining = 0
  /\ outcome = "Completed" => ~is_paused

\* C24 witness: the second session is about to enter its loop, running,
\* after the first was cancelled while paused and left the flag set.
C24_Witness ==
  /\ pc = "c_try" /\ session = 2 /\ paused_before
  /\ ~is_paused /\ remaining = total
====
